---- MODULE Spec2Model ----
(***************************************************************************)
(* Model of mp3header.py: the MP3 frame header decoder (bit extraction,    *)
(* hierarchical description lookup, the Mp3Info object and its length      *)
(* estimate).                                                              *)
(*                                                                         *)
(* Python values are modelled as records with one slot per Python type so  *)
(* that values of different types can be compared: None, bool, int, str    *)
(* and the (int, str) tuples of 'ChannelMode'.  A dict is a record         *)
(* [keys, order, d]: the type of its keys, the keys in insertion order and *)
(* the mapping.  A bit string is a sequence of the digits 0 and 1.  The    *)
(* float arithmetic of len_sec is modelled by exact rationals (IEEE        *)
(* rounding is not modelled).  Files are at least 4 bytes long.            *)
(***************************************************************************)
EXTENDS Integers, Sequences, FiniteSets, TLC

(* ---------------------------- bounds ----------------------------------- *)

\* file sizes 0..MaxSmallSize are tried next to the 5,000,000 byte file
MaxSmallSize == 2

\* the bytes tried at each of the four header positions
Byte0Set == {127, 255}
Byte1Set == {b \in 0..255 : b >= 224} \cup {27, 223}
Byte2Set == {b \in 0..255 : b % 4 = (b \div 16) % 4}
Byte3Set == {0, 85, 170, 255}

\* the headers tried: every combination that starts with 0xFF, and a few
\* of those that do not
Headers ==
  {h \in Byte0Set \X Byte1Set \X Byte2Set \X Byte3Set :
     h[1] = 255 \/ (h[4] = 0 /\ h[3] >= 128)}

FileSizes == (0..MaxSmallSize) \cup {5000000}

(* ------------------------- Python values ------------------------------- *)

PyNone == [kind |-> "None", i |-> 0, s |-> "", b |-> FALSE]
PyInt(n) == [kind |-> "int", i |-> n, s |-> "", b |-> FALSE]
PyStr(str) == [kind |-> "str", i |-> 0, s |-> str, b |-> FALSE]
PyBool(bv) == [kind |-> "bool", i |-> 0, s |-> "", b |-> bv]
PyTuple(n, str) == [kind |-> "tuple", i |-> n, s |-> str, b |-> FALSE]

IntDict(f) == [keys |-> "int", order |-> <<>>, d |-> f]
StrDict(ks, f) == [keys |-> "str", order |-> ks, d |-> f]

\* a dict of codes 1..Len(seq) to the integers of seq
IntTable(seq) == IntDict([k \in 1..Len(seq) |-> PyInt(seq[k])])
\* a dict of codes 0..Len(seq)-1 to the values of seq
CodeTable(seq) == IntDict([k \in 0..(Len(seq) - 1) |-> seq[k + 1]])

(* --------------------------- constants --------------------------------- *)

num_bytes_mp3_header == 4

_bits_per_byte == 8

element_bits ==
  << [name |-> "Sync", bits |-> 11],
     [name |-> "Version", bits |-> 2],
     [name |-> "Layer", bits |-> 2],
     [name |-> "ErrorProtection", bits |-> 1],
     [name |-> "BitRate", bits |-> 4],
     [name |-> "SampleRate", bits |-> 2],
     [name |-> "Padding", bits |-> 1],
     [name |-> "Private", bits |-> 1],
     [name |-> "ChannelMode", bits |-> 2],
     [name |-> "ModeExtension", bits |-> 2],
     [name |-> "Copyright", bits |-> 1],
     [name |-> "Original", bits |-> 1],
     [name |-> "Emphasis", bits |-> 2] >>

BitRateTables ==
  StrDict(<<"Version">>, [Version |->
    [x \in {"MPEG 1", "MPEG 2", "MPEG 2.5"} |->
      IF x = "MPEG 1"
      THEN StrDict(<<"Layer">>, [Layer |->
             [y \in {"Layer I", "Layer II", "Layer III"} |->
               IF y = "Layer I"
               THEN IntTable(<<32, 64, 96, 128, 160, 192, 224, 256,
                               288, 320, 352, 384, 416, 448>>)
               ELSE IF y = "Layer II"
               THEN IntTable(<<32, 48, 56, 64, 80, 96, 112, 128,
                               160, 192, 224, 256, 320, 384>>)
               ELSE IntTable(<<32, 40, 48, 56, 64, 80, 96, 112,
                               128, 160, 192, 224, 256, 320>>)]])
      ELSE StrDict(<<"Layer">>, [Layer |->
             [y \in {"Layer I", "Layer II"} |->
               IF y = "Layer I"
               THEN IntTable(<<32, 48, 56, 64, 80, 96, 112, 128,
                               144, 160, 176, 192, 224, 256>>)
               ELSE IntTable(<<8, 16, 24, 32, 40, 48, 56, 64,
                               80, 96, 112, 128, 144, 160>>)]])]])

SampleRateTables ==
  StrDict(<<"Version">>, [Version |->
    [x \in {"MPEG 1", "MPEG 2", "MPEG 2.5"} |->
      IF x = "MPEG 1"
      THEN CodeTable(<<PyInt(44100), PyInt(48000), PyInt(32000)>>)
      ELSE IF x = "MPEG 2"
      THEN CodeTable(<<PyInt(22050), PyInt(24000), PyInt(16000)>>)
      ELSE CodeTable(<<PyInt(11025), PyInt(12000), PyInt(8000)>>)]])

ModeExtensionTables ==
  StrDict(<<"Layer">>, [Layer |->
    [y \in {"Layer I", "Layer II", "Layer III"} |->
      IF y = "Layer III"
      THEN CodeTable(<<PyStr("Intensity-Stereo: off; M/S-Stereo: off"),
                       PyStr("Intensity-Stereo: on; M/S-Stereo: off"),
                       PyStr("Intensity-Stereo: off; M/S-Stereo: on"),
                       PyStr("Intensity-Stereo: on; M/S-Stereo: on")>>)
      ELSE CodeTable(<<PyStr("Subbands 4 to 31"),
                       PyStr("Subbands 8 to 31"),
                       PyStr("Subbands 12 to 31"),
                       PyStr("Subbands 16 to 31")>>)]])

SyncTable == IntDict([k \in {2047} |-> PyBool(TRUE)])

VersionTable ==
  CodeTable(<<PyStr("MPEG 2.5"), PyNone, PyStr("MPEG 2"), PyStr("MPEG 1")>>)

LayerTable ==
  CodeTable(<<PyNone, PyStr("Layer III"), PyStr("Layer II"), PyStr("Layer I")>>)

ErrorProtectionTable ==
  CodeTable(<<PyStr("16-Bit CRC nach dem Header"), PyStr("keine CRC")>>)

PaddingTable ==
  CodeTable(<<PyStr("Frame will not be filled up"),
              PyStr("Frame will be filled with extra slot")>>)

ChannelModeTable ==
  CodeTable(<<PyTuple(2, "Stereo"), PyTuple(2, "Joint Stereo"),
              PyTuple(2, "2 Mono Kanäle"), PyTuple(1, "Mono")>>)

EmphasisTable ==
  CodeTable(<<PyStr("no emphasis"), PyStr("50/15 ms"),
              PyStr("reserved"), PyStr("ITU-T J.17")>>)

\* the flags 'Private', 'Copyright' and 'Original'
FlagTable == CodeTable(<<PyBool(FALSE), PyBool(TRUE)>>)

\* element_description with the two values of 'Copyright' exchanged
element_description_swapped ==
  [Sync |-> SyncTable, Version |-> VersionTable, Layer |-> LayerTable,
   ErrorProtection |-> ErrorProtectionTable, BitRate |-> BitRateTables,
   SampleRate |-> SampleRateTables, Padding |-> PaddingTable,
   Private |-> FlagTable, ChannelMode |-> ChannelModeTable,
   ModeExtension |-> ModeExtensionTables,
   Copyright |-> CodeTable(<<PyBool(TRUE), PyBool(FALSE)>>),
   Original |-> FlagTable, Emphasis |-> EmphasisTable]

element_description ==
  [Sync |-> SyncTable, Version |-> VersionTable, Layer |-> LayerTable,
   ErrorProtection |-> ErrorProtectionTable, BitRate |-> BitRateTables,
   SampleRate |-> SampleRateTables, Padding |-> PaddingTable,
   Private |-> FlagTable, ChannelMode |-> ChannelModeTable,
   ModeExtension |-> ModeExtensionTables, Copyright |-> FlagTable,
   Original |-> FlagTable, Emphasis |-> EmphasisTable]

(* ------------------------- bit strings --------------------------------- *)

Min(a, b) == IF a < b THEN a ELSE b

RECURSIVE bin(_)
\* bin(n)[2:] : the binary digits of n, most significant first, no leading 0
bin(n) == IF n < 2 THEN <<n>> ELSE Append(bin(n \div 2), n % 2)

RECURSIVE rjust(_, _, _)
\* str.rjust(width, fill): pads on the left up to width, never truncates
rjust(str, width, fill) ==
  IF Len(str) >= width THEN str ELSE rjust(<<fill>> \o str, width, fill)

RECURSIVE int2(_)
\* int(str, 2) of a non-empty digit string
int2(str) ==
  IF Len(str) = 0 THEN 0
  ELSE 2 * int2(SubSeq(str, 1, Len(str) - 1)) + str[Len(str)]

\* Python slice str[start:end] (0-based, clamped to the string)
Slice(str, start, end) == SubSeq(str, Min(start, Len(str)) + 1, Min(end, Len(str)))

RECURSIVE ReadBytes_nopad(_, _)
\* the loop of _parse_header_bytes_as_bitstr without the rjust(8, '0')
ReadBytes_nopad(bytes, n) ==
  IF n = 0 THEN <<>>
  ELSE ReadBytes_nopad(bytes, n - 1) \o bin(bytes[n])

RECURSIVE ReadBytes(_, _)
\* the loop of _parse_header_bytes_as_bitstr over the first n bytes
ReadBytes(bytes, n) ==
  IF n = 0 THEN <<>>
  ELSE ReadBytes(bytes, n - 1) \o rjust(bin(bytes[n]), 8, 0)

_parse_header_bytes_as_bitstr(bytes) == ReadBytes(bytes, num_bytes_mp3_header)

RECURSIVE ExtractLoop_overlap(_, _, _, _)
\* the extraction loop with each field starting on the last bit of the
\* field before it (start = end - 1)
ExtractLoop_overlap(bitstr, layout, k, acc) ==
  IF k > Len(layout) THEN [status |-> "ok", d |-> acc.d, start |-> acc.start]
  ELSE LET start == acc.start
           end == start + layout[k].bits
           piece == Slice(bitstr, start, end)
       IN IF Len(piece) = 0
          THEN [status |-> "ValueError", d |-> acc.d, start |-> start]
          ELSE ExtractLoop_overlap(bitstr, layout, k + 1,
                 [d |-> Append(acc.d, [name |-> layout[k].name,
                                       value |-> int2(piece)]),
                  start |-> end - 1])

RECURSIVE ExtractLoop(_, _, _, _)
\* the for loop of _get_header_values_dict_from_header_bytes from entry k on;
\* acc is the dict built so far (items in insertion order)
ExtractLoop(bitstr, layout, k, acc) ==
  IF k > Len(layout) THEN [status |-> "ok", d |-> acc.d, start |-> acc.start]
  ELSE LET start == acc.start
           end == start + layout[k].bits
           piece == Slice(bitstr, start, end)
       IN IF Len(piece) = 0
          THEN [status |-> "ValueError", d |-> acc.d, start |-> start]
          ELSE ExtractLoop(bitstr, layout, k + 1,
                 [d |-> Append(acc.d, [name |-> layout[k].name,
                                       value |-> int2(piece)]),
                  start |-> end])

_get_header_values_dict_from_header_bytes(bitstr, layout) ==
  ExtractLoop(bitstr, layout, 1, [d |-> <<>>, start |-> 0])

\* key in dict, for a dict kept as its item list
DictHas(items, key) == \E k \in 1..Len(items) : items[k].name = key

\* dict[key], for a dict kept as its item list
DictGet(items, key) ==
  items[CHOOSE k \in 1..Len(items) : items[k].name = key].value

(* ----------------------- description lookup ---------------------------- *)

Ok(v) == [status |-> "ok", v |-> v]
KeyError == [status |-> "KeyError", v |-> PyNone]

\* any(description): some key of the dict is truthy
PyAny(description) ==
  IF description.keys = "int"
  THEN \E k \in DOMAIN description.d : k # 0
  ELSE \E k \in DOMAIN description.d : k # ""

RECURSIVE get_description_recursive_own(_, _, _)
\* the lookup with the prerequisite element read at the element's own code
\* (value) instead of header_values_dict[element]
get_description_recursive_own(description, value, header_values_dict) ==
  IF ~PyAny(description) THEN Ok(PyNone)
  ELSE IF description.keys = "int"
  THEN IF value \in DOMAIN description.d
       THEN Ok(description.d[value])
       ELSE KeyError
  ELSE LET element == description.order[1]
           table == element_description[element]
           code == value
       IN IF ~(table.keys = "int" /\ code \in DOMAIN table.d) THEN KeyError
          ELSE LET resolved == table.d[code]
               IN IF ~(resolved.kind = "str"
                       /\ resolved.s \in DOMAIN description.d[element])
                  THEN KeyError
                  ELSE get_description_recursive_own(
                         description.d[element][resolved.s], value,
                         header_values_dict)

RECURSIVE get_description_recursive_get(_, _, _)
\* the lookup with dict.get in place of indexing: a missing key gives None
get_description_recursive_get(description, value, header_values_dict) ==
  IF ~PyAny(description) THEN Ok(PyNone)
  ELSE IF description.keys = "int"
  THEN IF value \in DOMAIN description.d
       THEN Ok(description.d[value])
       ELSE Ok(PyNone)
  ELSE LET element == description.order[1]
           table == element_description[element]
           code == DictGet(header_values_dict, element)
       IN IF ~DictHas(header_values_dict, element) THEN Ok(PyNone)
          ELSE IF ~(table.keys = "int" /\ code \in DOMAIN table.d)
          THEN Ok(PyNone)
          ELSE LET resolved == table.d[code]
               IN IF ~(resolved.kind = "str"
                       /\ resolved.s \in DOMAIN description.d[element])
                  THEN Ok(PyNone)
                  ELSE get_description_recursive_get(
                         description.d[element][resolved.s], value,
                         header_values_dict)

RECURSIVE get_description_recursive(_, _, _)
get_description_recursive(description, value, header_values_dict) ==
  IF ~PyAny(description) THEN Ok(PyNone)
  ELSE IF description.keys = "int"
  THEN IF value \in DOMAIN description.d
       THEN Ok(description.d[value])
       ELSE KeyError
  ELSE LET element == description.order[1]
           table == element_description[element]
           code == DictGet(header_values_dict, element)
       IN IF ~DictHas(header_values_dict, element) THEN KeyError
          ELSE IF ~(table.keys = "int" /\ code \in DOMAIN table.d) THEN KeyError
          ELSE LET resolved == table.d[code]
               IN IF ~(resolved.kind = "str"
                       /\ resolved.s \in DOMAIN description.d[element])
                  THEN KeyError
                  ELSE get_description_recursive(
                         description.d[element][resolved.s], value,
                         header_values_dict)

RECURSIVE DescribeLoop(_, _, _)
\* the for loop of _get_description_from_header_values_dict from item k on
DescribeLoop(header_values_dict, k, acc) ==
  IF k > Len(header_values_dict)
  THEN [status |-> "ok", d |-> acc, attempted |-> k - 1]
  ELSE LET element == header_values_dict[k].name
           value == header_values_dict[k].value
           r == get_description_recursive(element_description[element],
                                          value, header_values_dict)
       IN IF r.status # "ok"
          THEN [status |-> r.status, d |-> acc, attempted |-> k]
          ELSE DescribeLoop(header_values_dict, k + 1,
                            Append(acc, [name |-> element, value |-> r.v]))

_get_description_from_header_values_dict(header_values_dict) ==
  DescribeLoop(header_values_dict, 1, <<>>)

(* ------------------------ exact arithmetic ----------------------------- *)

RECURSIVE GCD(_, _)
GCD(a, b) == IF b = 0 THEN a ELSE GCD(b, a % b)

\* the fraction n/d in lowest terms (n >= 0, d > 0)
Frac(n, d) == LET g == GCD(n, d) IN [num |-> n \div g, den |-> d \div g]

\* r * n and r / n for a fraction r and an integer n
FMul(r, n) == LET g == GCD(n, r.den) IN Frac(r.num * (n \div g), r.den \div g)
FDiv(r, n) == LET g == GCD(r.num, n) IN Frac(r.num \div g, r.den * (n \div g))

(* ----------------------------- state ----------------------------------- *)

VARIABLES header_bytes, mp3info, ret

vars == <<header_bytes, mp3info, ret>>

NoObject ==
  [status |-> "none", _header_bitstr |-> <<>>, _header_valuesd |-> <<>>,
   _header_descriptionsd |-> <<>>, attempted |-> 0]

NoCall ==
  [call |-> "none", status |-> "none", layout |-> <<>>, values |-> <<>>,
   descriptions |-> <<>>, attempted |-> 0, size |-> 0,
   seconds |-> [num |-> 0, den |-> 1]]

\* layouts handed to the bit extractor: the module's own, two shorter ones,
\* one whose last field is too wide and one with a field past the end
Layouts ==
  { element_bits,
    SubSeq(element_bits, 1, 3),
    SubSeq(element_bits, 1, 12),
    SubSeq(element_bits, 1, 12) \o <<[name |-> "Emphasis", bits |-> 4]>>,
    element_bits \o <<[name |-> "Extra", bits |-> 8]>> }

\* a behaviour is one use of the module on one file, as in the module's
\* examples: parse(path), or Mp3Info(path) followed by reads of len_sec
Fresh == mp3info.status = "none" /\ ret.call = "none"

Init ==
  /\ header_bytes \in Headers
  /\ mp3info = NoObject
  /\ ret = NoCall

\* Mp3Info.__init__ with 'Sync' compared with 2048 (2**11) instead of 2047
Mp3Info_sync2048(bytes) ==
  LET bitstr == _parse_header_bytes_as_bitstr(bytes)
      ext == _get_header_values_dict_from_header_bytes(bitstr, element_bits)
      valuesd == ext.d
      desc == _get_description_from_header_values_dict(valuesd)
  IN IF ext.status # "ok"
     THEN [status |-> ext.status, _header_bitstr |-> bitstr,
           _header_valuesd |-> <<>>, _header_descriptionsd |-> <<>>,
           attempted |-> 0]
     ELSE IF ~(DictGet(valuesd, "Sync") = 2048)
     THEN [status |-> "IOError", _header_bitstr |-> bitstr,
           _header_valuesd |-> valuesd, _header_descriptionsd |-> <<>>,
           attempted |-> 0]
     ELSE [status |-> desc.status, _header_bitstr |-> bitstr,
           _header_valuesd |-> valuesd,
           _header_descriptionsd |-> IF desc.status = "ok" THEN desc.d ELSE <<>>,
           attempted |-> desc.attempted]

\* the object Mp3Info.__init__ builds from the file's bytes, or the exception
\* it raises; attempted counts the fields whose description was looked up
Mp3Info(bytes) ==
  LET bitstr == _parse_header_bytes_as_bitstr(bytes)
      ext == _get_header_values_dict_from_header_bytes(bitstr, element_bits)
      valuesd == ext.d
      desc == _get_description_from_header_values_dict(valuesd)
  IN IF ext.status # "ok"
     THEN [status |-> ext.status, _header_bitstr |-> bitstr,
           _header_valuesd |-> <<>>, _header_descriptionsd |-> <<>>,
           attempted |-> 0]
     ELSE IF ~(DictGet(valuesd, "Sync") = 2047)
     THEN [status |-> "IOError", _header_bitstr |-> bitstr,
           _header_valuesd |-> valuesd, _header_descriptionsd |-> <<>>,
           attempted |-> 0]
     ELSE [status |-> desc.status, _header_bitstr |-> bitstr,
           _header_valuesd |-> valuesd,
           _header_descriptionsd |-> IF desc.status = "ok" THEN desc.d ELSE <<>>,
           attempted |-> desc.attempted]

\* Mp3Info(path)
Mp3Info__init__ ==
  /\ Fresh
  /\ mp3info' = Mp3Info(header_bytes)
  /\ UNCHANGED <<header_bytes, ret>>

\* parse(path)
parse ==
  /\ Fresh
  /\ LET bitstr == _parse_header_bytes_as_bitstr(header_bytes)
         ext == _get_header_values_dict_from_header_bytes(bitstr, element_bits)
         desc == _get_description_from_header_values_dict(ext.d)
     IN ret' = IF ext.status # "ok"
               THEN [NoCall EXCEPT !.call = "parse", !.status = ext.status,
                                   !.layout = element_bits]
               ELSE [NoCall EXCEPT !.call = "parse", !.status = desc.status,
                                   !.layout = element_bits, !.values = ext.d,
                                   !.descriptions = IF desc.status = "ok"
                                                    THEN desc.d ELSE <<>>,
                                   !.attempted = desc.attempted]
  /\ UNCHANGED <<header_bytes, mp3info>>

\* _get_header_values_dict_from_header_bytes(bitstr, element_bits=layout)
extract ==
  /\ Fresh
  /\ \E layout \in Layouts :
       LET bitstr == _parse_header_bytes_as_bitstr(header_bytes)
           ext == _get_header_values_dict_from_header_bytes(bitstr, layout)
       IN ret' = [NoCall EXCEPT !.call = "extract", !.status = ext.status,
                                !.layout = layout,
                                !.values = IF ext.status = "ok"
                                           THEN ext.d ELSE <<>>]
  /\ UNCHANGED <<header_bytes, mp3info>>

\* Mp3Info.bit_rate
bit_rate == DictGet(mp3info._header_descriptionsd, "BitRate")

\* the quotient of len_sec without the factor _bits_per_byte
len_sec_value_bytes(size, rate) == FDiv(FMul(Frac(1, 1000), size), rate)

\* 1e-3 * self.size * self._bits_per_byte / self.bit_rate, left to right
len_sec_value(size, rate) ==
  FDiv(FMul(FMul(Frac(1, 1000), size), _bits_per_byte), rate)

\* Mp3Info.len_sec, with Mp3Info.size returning the file's current size
len_sec ==
  /\ mp3info.status = "ok"
  /\ \E size \in FileSizes :
       ret' = IF bit_rate.kind # "int"
              THEN [NoCall EXCEPT !.call = "len_sec", !.status = "TypeError",
                                  !.size = size]
              ELSE IF bit_rate.i = 0
              THEN [NoCall EXCEPT !.call = "len_sec",
                                  !.status = "ZeroDivisionError",
                                  !.size = size]
              ELSE [NoCall EXCEPT !.call = "len_sec", !.status = "ok",
                                  !.size = size,
                                  !.seconds = len_sec_value(size, bit_rate.i)]
  /\ UNCHANGED <<header_bytes, mp3info>>

Next == Mp3Info__init__ \/ parse \/ extract \/ len_sec

Spec == Init /\ [][Next]_vars

TypeOK ==
  /\ mp3info.status \in {"none", "ok", "IOError", "KeyError", "ValueError"}
  /\ ret.call \in {"none", "parse", "extract", "len_sec"}

(* ----------------- the header, read off the bytes ----------------------- *)

RECURSIVE Pow2(_)
Pow2(n) == IF n = 0 THEN 1 ELSE 2 * Pow2(n - 1)

\* bit j (0 = first) of the 32 header bits, most significant bit of a byte first
HeaderBit(j) == (header_bytes[(j \div 8) + 1] \div Pow2(7 - (j % 8))) % 2

HeaderBits == [j \in 1..32 |-> HeaderBit(j - 1)]

RECURSIVE BitsValue(_, _)
\* the unsigned number written in the w header bits from bit off on
BitsValue(off, w) ==
  IF w = 0 THEN 0 ELSE 2 * BitsValue(off, w - 1) + HeaderBit(off + w - 1)

RECURSIVE WidthSum(_, _)
\* the sum of the widths of the first k entries of a layout
WidthSum(layout, k) ==
  IF k = 0 THEN 0 ELSE WidthSum(layout, k - 1) + layout[k].bits

FieldIndex(name) == CHOOSE k \in 1..Len(element_bits) : element_bits[k].name = name

\* the code of a field of the fixed layout, read off the bytes
Code(name) ==
  LET k == FieldIndex(name)
  IN BitsValue(WidthSum(element_bits, k - 1), element_bits[k].bits)

SyncBitsAllOne == \A j \in 0..10 : HeaderBit(j) = 1

\* the description dict of the constructed object, and of parse()'s result
Desc(name) == DictGet(mp3info._header_descriptionsd, name)
ParsedDesc(name) == DictGet(ret.descriptions, name)

\* a dict holds exactly one item per entry of the layout, in layout order
OneItemPerField(items, layout) ==
  /\ Len(items) = Len(layout)
  /\ \A k \in 1..Len(layout) : items[k].name = layout[k].name

\* every header codes of which have an entry in the tables
Decodable ==
  /\ Code("Version") \in {0, 2, 3}
  /\ Code("Layer") \in {1, 2, 3}
  /\ ~(Code("Version") \in {0, 2} /\ Code("Layer") = 1)
  /\ Code("BitRate") \in 1..14
  /\ Code("SampleRate") \in 0..2

\* a code that no table lists, the reserved codes of Version and Layer aside
Unlisted ==
  \/ Code("BitRate") \in {0, 15}
  \/ Code("SampleRate") = 3
  \/ (Code("Version") \in {0, 2} /\ Code("Layer") = 1)

(* ------------------------------ C1 ------------------------------------- *)

\* C1: a header whose first 11 bits are not all 1 is rejected with the
\* dedicated error (the IOError of Mp3Info) before any description is looked
\* up, by Mp3Info(path) and by parse(path) alike.
C1_SyncRejectedEverywhere ==
  ~SyncBitsAllOne =>
    /\ (mp3info.status # "none" =>
          mp3info.status = "IOError" /\ mp3info.attempted = 0)
    /\ (ret.call = "parse" =>
          ret.status = "IOError" /\ ret.attempted = 0)

(* ------------------------------ C2 ------------------------------------- *)

\* C2 as stated: every header whose first 11 bits are all 1 constructs an
\* Mp3Info, with one description per field of the layout; stated here for the
\* headers whose Version and Layer codes are not the reserved ones (C3's
\* case), whatever their other bits are.
C2_EverySyncedHeaderDecodes ==
  (SyncBitsAllOne /\ mp3info.status # "none"
     /\ Code("Version") # 1 /\ Code("Layer") # 0) =>
    /\ mp3info.status = "ok"
    /\ OneItemPerField(mp3info._header_descriptionsd, element_bits)

\* C2 as amended: a header whose first 11 bits are all 1 constructs an Mp3Info
\* with one description per field when its Version, Layer, BitRate and
\* SampleRate codes all have a table entry; when the BitRate code is 0 or 15,
\* the SampleRate code is 3 or the layer is Layer III of MPEG 2 or 2.5, the
\* construction raises KeyError.
C2_ListedCodesDecode ==
  (SyncBitsAllOne /\ mp3info.status # "none") =>
    /\ (Decodable =>
          /\ mp3info.status = "ok"
          /\ OneItemPerField(mp3info._header_descriptionsd, element_bits))
    /\ (Unlisted => mp3info.status = "KeyError")

C2_Witness ==
  /\ SyncBitsAllOne
  /\ Decodable
  /\ mp3info.status = "ok"
  /\ Len(mp3info._header_descriptionsd) = 13

(* ------------------------------ C3 ------------------------------------- *)

\* C3: a header whose first 11 bits are all 1 and whose Version code is 1 (or
\* whose Layer code is 0) constructs an Mp3Info in which that field is None;
\* the fields that depend on it do not make the construction fail.  Stated
\* for the headers whose BitRate and SampleRate codes the tables list, so
\* that nothing but the reserved code is unusual.
C3_ReservedCodeDecodes ==
  (SyncBitsAllOne /\ mp3info.status # "none"
     /\ Code("BitRate") \in 1..14 /\ Code("SampleRate") \in 0..2
     /\ (Code("Version") = 1 \/ Code("Layer") = 0)) =>
    /\ mp3info.status = "ok"
    /\ (Code("Version") = 1 => Desc("Version") = PyNone)
    /\ (Code("Layer") = 0 => Desc("Layer") = PyNone)

(* ------------------------------ C4 ------------------------------------- *)

\* the bit rate and sample rate tables, indexed by the resolved strings
BitRateOf(version, layer, code) ==
  element_description.BitRate.d.Version[version].d.Layer[layer].d[code]

SampleRateOf(version, code) ==
  element_description.SampleRate.d.Version[version].d[code]

\* the tables have an entry for these keys
HasBitRate(version, layer, code) ==
  /\ version \in DOMAIN element_description.BitRate.d.Version
  /\ layer \in DOMAIN element_description.BitRate.d.Version[version].d.Layer
  /\ code \in DOMAIN element_description.BitRate.d.Version[version].d.Layer[layer].d

HasSampleRate(version, code) ==
  /\ version \in DOMAIN element_description.SampleRate.d.Version
  /\ code \in DOMAIN element_description.SampleRate.d.Version[version].d

\* C4 for one description dict d of a header that decoded
DependentLookupOk(d) ==
  LET version == DictGet(d, "Version").s
      layer == DictGet(d, "Layer").s
      rate == DictGet(d, "BitRate")
      freq == DictGet(d, "SampleRate")
  IN /\ HasBitRate(version, layer, Code("BitRate"))
     /\ rate = BitRateOf(version, layer, Code("BitRate"))
     /\ HasSampleRate(version, Code("SampleRate"))
     /\ freq = SampleRateOf(version, Code("SampleRate"))
     /\ (version = "MPEG 1" /\ layer = "Layer III" /\ Code("BitRate") = 9
           => rate = PyInt(128))
     /\ (version = "MPEG 2" /\ layer = "Layer II" /\ Code("BitRate") = 1
           => rate = PyInt(8))
     /\ (version = "MPEG 1" /\ Code("SampleRate") = 0 => freq = PyInt(44100))
     /\ (version = "MPEG 2.5" /\ Code("SampleRate") = 2 => freq = PyInt(8000))

\* C4: in every header that decodes, BitRate is the table entry of (resolved
\* Version, resolved Layer, BitRate code) and SampleRate the entry of
\* (resolved Version, SampleRate code), whatever the other fields are; MPEG 1
\* Layer III code 9 is 128, MPEG 2 Layer II code 1 is 8, MPEG 1 sample rate
\* code 0 is 44100 and MPEG 2.5 code 2 is 8000.
C4_DependentLookup ==
  /\ (mp3info.status = "ok" => DependentLookupOk(mp3info._header_descriptionsd))
  /\ (ret.call = "parse" /\ ret.status = "ok" =>
        DependentLookupOk(ret.descriptions))

C4_Witness ==
  /\ mp3info.status = "ok"
  /\ Desc("Version") = PyStr("MPEG 2")
  /\ Desc("Layer") = PyStr("Layer II")
  /\ Code("BitRate") = 1
  /\ Desc("BitRate") = PyInt(8)
  /\ Code("SampleRate") = 1
  /\ Desc("SampleRate") = PyInt(24000)

(* ------------------------------ C5 ------------------------------------- *)

\* the values the interface declares for 'ChannelMode' and 'Emphasis'
DeclaredChannelMode ==
  <<PyTuple(2, "Stereo"), PyTuple(2, "Joint Stereo"),
    PyTuple(2, "Dual Channel"), PyTuple(1, "Mono")>>

DeclaredEmphasis ==
  <<PyStr("no emphasis"), PyStr("50/15 ms"), PyStr("reserved"),
    PyStr("ITU-T J.17")>>

\* the values the code gives 'ChannelMode' and 'Padding'
CodedChannelMode ==
  <<PyTuple(2, "Stereo"), PyTuple(2, "Joint Stereo"),
    PyTuple(2, "2 Mono Kanäle"), PyTuple(1, "Mono")>>

CodedPadding ==
  <<PyStr("Frame will not be filled up"),
    PyStr("Frame will be filled with extra slot")>>

IsFlag(name) == Desc(name) = PyBool(Code(name) = 1)

\* C5 as stated: in every header that decodes, ChannelMode code 2 is
\* (2, "Dual Channel") and the other codes as declared, Emphasis is as
\* declared and Padding, Private, Copyright and Original are booleans.
C5_DirectFieldsAsDeclared ==
  mp3info.status = "ok" =>
    /\ Desc("ChannelMode") = DeclaredChannelMode[Code("ChannelMode") + 1]
    /\ Desc("Emphasis") = DeclaredEmphasis[Code("Emphasis") + 1]
    /\ IsFlag("Padding")
    /\ IsFlag("Private")
    /\ IsFlag("Copyright")
    /\ IsFlag("Original")

\* C5 as amended: in every header that decodes, ChannelMode is (2, "Stereo"),
\* (2, "Joint Stereo"), (2, "2 Mono Kanäle") or (1, "Mono") by its code,
\* Emphasis is as declared, Private, Copyright and Original are the booleans
\* of their codes, and Padding is the string "Frame will not be filled up"
\* (code 0) or "Frame will be filled with extra slot" (code 1).
C5_DirectFieldsAsCoded ==
  mp3info.status = "ok" =>
    /\ Desc("ChannelMode") = CodedChannelMode[Code("ChannelMode") + 1]
    /\ Desc("Emphasis") = DeclaredEmphasis[Code("Emphasis") + 1]
    /\ Desc("Padding") = CodedPadding[Code("Padding") + 1]
    /\ IsFlag("Private")
    /\ IsFlag("Copyright")
    /\ IsFlag("Original")

C5_Witness ==
  /\ mp3info.status = "ok"
  /\ Code("ChannelMode") = 2
  /\ Desc("ChannelMode").s = "2 Mono Kanäle"
  /\ Code("Padding") = 1
  /\ Desc("Padding").kind = "str"
  /\ Code("Copyright") = 1
  /\ Code("Original") = 0

(* ------------------------------ C6 ------------------------------------- *)

\* C6 for one values dict: one integer per layout entry, each the number in
\* the header bits that start where the entry before it ended, within the
\* range of its width
FieldsOk(items) ==
  /\ OneItemPerField(items, element_bits)
  /\ \A k \in 1..Len(element_bits) :
       /\ items[k].value =
            BitsValue(WidthSum(element_bits, k - 1), element_bits[k].bits)
       /\ items[k].value >= 0
       /\ items[k].value <= Pow2(element_bits[k].bits) - 1

\* C6: for every 4 bytes the extractor gives one integer per entry of the
\* layout, the 13 widths sum to 32, field k is read from the bits that start
\* at the sum of the widths before it, and each code is in 0..2^width - 1.
C6_ExtractedFields ==
  /\ Len(element_bits) = 13
  /\ WidthSum(element_bits, Len(element_bits)) = 32
  /\ (mp3info.status # "none" => FieldsOk(mp3info._header_valuesd))
  /\ (ret.call = "parse" => FieldsOk(ret.values))
  /\ (ret.call = "extract" /\ ret.layout = element_bits =>
        ret.status = "ok" /\ FieldsOk(ret.values))

C6_Witness ==
  /\ ret.call = "extract"
  /\ ret.layout = element_bits
  /\ ret.status = "ok"
  /\ DictGet(ret.values, "BitRate") = 15
  /\ DictGet(ret.values, "Layer") = 0
  /\ DictGet(ret.values, "Emphasis") = 2

(* ------------------------------ C7 ------------------------------------- *)

RECURSIVE Encode(_, _, _)
\* the first k codes written back, each as a binary number of its width
Encode(items, layout, k) ==
  IF k = 0 THEN <<>>
  ELSE Encode(items, layout, k - 1)
         \o rjust(bin(items[k].value), layout[k].bits, 0)

\* the bytes of a string of 32 bits
BytesOf(bits) == [n \in 1..4 |-> int2(SubSeq(bits, 8 * n - 7, 8 * n))]

\* C7 for one values dict
RoundTrip(items) ==
  /\ Len(items) = Len(element_bits)
  /\ Encode(items, element_bits, Len(element_bits)) = HeaderBits
  /\ BytesOf(Encode(items, element_bits, Len(element_bits))) = header_bytes

\* C7: writing the extracted codes back, each as an unsigned binary number of
\* its width, most significant bit first and in layout order, gives the 32
\* bits of the 4 bytes read.
C7_RoundTrip ==
  /\ (mp3info.status # "none" => RoundTrip(mp3info._header_valuesd))
  /\ (ret.call = "parse" => RoundTrip(ret.values))
  /\ (ret.call = "extract" /\ ret.layout = element_bits =>
        RoundTrip(ret.values))

C7_Witness ==
  /\ ret.call = "parse"
  /\ header_bytes[3] < 128
  /\ header_bytes[4] = 85
  /\ BytesOf(Encode(ret.values, element_bits, 13)) = header_bytes

(* ------------------------------ C8 ------------------------------------- *)

C9_LayoutMismatchRejected ==
  (ret.call = "extract" /\ WidthSum(ret.layout, Len(ret.layout)) # 32) =>
    /\ ret.status = "LayoutMismatch"
    /\ ret.values = <<>>

(* ------------------------------ C10 ------------------------------------ *)

\* C10: the BitRate of every constructed Mp3Info is a positive integer; the
\* construction fails for BitRate codes 0 and 15 and for every (Version,
\* Layer) without a bit rate table; len_sec of a constructed Mp3Info never
\* divides by None or by zero.
C10_BitRatePositive ==
  /\ (mp3info.status = "ok" => bit_rate.kind = "int" /\ bit_rate.i > 0)
  /\ (mp3info.status # "none"
        /\ (\/ Code("BitRate") \in {0, 15}
            \/ Code("Version") = 1
            \/ Code("Layer") = 0
            \/ (Code("Version") \in {0, 2} /\ Code("Layer") = 1))
        => mp3info.status # "ok")
  /\ (ret.call = "len_sec" => ret.status = "ok")

C10_Witness ==
  /\ mp3info.status = "ok"
  /\ bit_rate = PyInt(448)
  /\ ret.call = "len_sec"
  /\ ret.status = "ok"
  /\ ret.size = 0

====
